---- MODULE Spec2Model ----
(***************************************************************************)
(* Subscription lifecycle of orbit-mvp (src/src/server.js): the client     *)
(* store, the admin handlers that create, pause and renew clients, and the *)
(* reconciliation pass subscriptionCheck with its reminder throttle and    *)
(* expiry pause.                                                           *)
(*                                                                         *)
(* Time is counted in ticks of 24/DayTicks hours.  A handler whose awaits  *)
(* only read, write once and then send mail is one action (its single row  *)
(* update is atomic in the store, and the mail is sent from values read    *)
(* before the update).  subscriptionCheck is a process: one action per     *)
(* stretch of code between two awaits, so that other handlers and a second *)
(* pass can run while it waits.  A pass takes seconds and a tick is hours: *)
(* the clock advances between passes, not inside one.  The server clock is *)
(* taken to be in a zone without daylight-saving shifts, so a calendar day *)
(* is DayTicks ticks.                                                      *)
(***************************************************************************)
EXTENDS Integers, Sequences, FiniteSets, TLC

\* ---------------------------------------------------------------- bounds
MaxTime == 4          \* the clock stops after this many ticks
DayTicks == 2         \* ticks per day (a tick is 12 hours)

ClientIds == {1, 2}   \* rows the client table can hold
Codes == {"acme", "bolt"}     \* codes an admin may type
IntakeIds == {1}      \* rows the intake table can hold
MaxLeads == 1         \* rows the lead table can hold
AppTime == 2          \* the clock's last tick when every handler is in play
MaxRejected == 1      \* rejected invocations counted per trigger
Passes == {"sched", "dash"}   \* one invocation in flight per trigger
Links == {<<>>, <<"cal">>}    \* booking links an admin may type (none, or one)

\* Deployments (environment read at lines 19-22 and 80-87 of server.js).
Configs ==
  { [planDays |-> 1, remindDays |-> 1, notify |-> TRUE,  smtp |-> TRUE],
    [planDays |-> 2, remindDays |-> 1, notify |-> FALSE, smtp |-> TRUE],
    [planDays |-> 2, remindDays |-> 1, notify |-> TRUE,  smtp |-> FALSE] }

\* ------------------------------------------------------------ data model
\* A nullable timestamp is <<>> (null) or <<t>>.
Null == <<>>
At(t) == <<t>>
Val(x) == x[1]

NoClient == [status |-> "NONE"]

VARIABLES
  now,        \* the clock (Date.now(), new Date())
  cfg,        \* the deployment's configuration
  clients,    \* the Client table: id -> row, or NoClient
  intakes,    \* the IntakeRequest table: id -> "NONE", "NEW" or "APPROVED"
  leads,      \* the Lead table: the owning client id of each row, oldest first
  pc,         \* per pass: where the invocation stands
  snap,       \* per pass: the rows findMany returned
  todo,       \* per pass: rows of snap the loop has not reached yet
  cur,        \* per pass: the row the loop is at (0: none)
  left,       \* per pass: the loop's `left` for cur
  sent,       \* per pass: the mails this invocation attempted
  rejected,   \* per trigger: invocations that rejected and were caught
  reminders,  \* per client: reminder mails attempted, where they are counted
  lastOp      \* the step that produced this state, with its inputs

vars == <<now, cfg, clients, intakes, leads, pc, snap, todo, cur, left, sent,
          rejected, reminders, lastOp>>
passVars == <<pc, snap, todo, cur, left, sent, rejected>>

PLAN_DAYS == cfg.planDays
REMIND_DAYS_BEFORE == cfg.remindDays
YOUR_NOTIFY_EMAIL == cfg.notify

Existing == {c \in ClientIds : clients[c] # NoClient}

\* ---------------------------------------------------------------- helpers
\* ceil(a / b) for b > 0, as Math.ceil does on the quotient (also for a < 0).
Ceil(a, b) == -((-a) \div b)

addDays(date, days) == date + days * DayTicks

\* Whole days left, rounded down.
getDaysLeftFloor(dueAt, t) == (Val(dueAt) - t) \div DayTicks

\* getDaysLeft (lines 50-54) for a non-null dueAt, with Date.now() = t.
getDaysLeft(dueAt, t) == Ceil(Val(dueAt) - t, DayTicks)

smtpReady == cfg.smtp

\* sendEmail without its try/catch: a transport error escapes to the caller.
sendEmailNoCatch(transportOk) ==
  IF ~smtpReady THEN "skipped"
  ELSE IF transportOk THEN "ok"
  ELSE "threw"

\* The outcome of one sendEmail call (lines 93-119): without SMTP settings
\* the mail is skipped; a transport error is caught and reported.
sendEmail(transportOk) ==
  IF ~smtpReady THEN "skipped"
  ELSE IF transportOk THEN "ok"
  ELSE "failed"



\* ------------------------------------------------------------------ Init
Init ==
  /\ now = 0
  /\ cfg \in Configs
  /\ clients = [c \in ClientIds |-> NoClient]
  /\ intakes = [i \in IntakeIds |-> "NONE"]
  /\ leads = <<>>
  /\ pc = [p \in Passes |-> "idle"]
  /\ snap = [p \in Passes |-> [c \in ClientIds |-> NoClient]]
  /\ todo = [p \in Passes |-> {}]
  /\ cur = [p \in Passes |-> 0]
  /\ left = [p \in Passes |-> 0]
  /\ sent = [p \in Passes |-> <<>>]
  /\ rejected = [p \in Passes |-> 0]
  /\ reminders = [c \in ClientIds |-> 0]
  /\ lastOp = [op |-> "init"]

\* The clock advances.
Tick ==
  /\ now < MaxTime
  /\ now' = now + 1
  /\ lastOp' = [op |-> "tick"]
  /\ UNCHANGED <<cfg, clients, intakes, leads, passVars>>

\* ------------------------------------------------------- the client store
\* prisma.client.update({where: {id}, data}): a partial patch of one row.
Update(id, data) ==
  [clients EXCEPT ![id] = [f \in DOMAIN @ |-> IF f \in DOMAIN data THEN data[f] ELSE @[f]]]

\* A created row that counts as reminded from the start.
NewRowReminded(code, link, t) ==
  [status |-> "ACTIVE", code |-> code, bookingLink |-> link,
   startedAt |-> At(t), dueAt |-> At(addDays(t, PLAN_DAYS)),
   pausedAt |-> Null, pauseReason |-> Null, lastReminderAt |-> At(t)]

\* A created row whose due date was left out.
NewRowNoDue(code, link, t) ==
  [status |-> "ACTIVE", code |-> code, bookingLink |-> link,
   startedAt |-> At(t), dueAt |-> Null,
   pausedAt |-> Null, pauseReason |-> Null, lastReminderAt |-> Null]

\* The row prisma.client.create stores for the data the handlers pass
\* (lines 258-266 and 364-372): the columns they leave out are null.
NewRow(code, link, t) ==
  [status |-> "ACTIVE", code |-> code, bookingLink |-> link,
   startedAt |-> At(t), dueAt |-> At(addDays(t, PLAN_DAYS)),
   pausedAt |-> Null, pauseReason |-> Null, lastReminderAt |-> Null]

CodeTaken(code) == \E c \in Existing : clients[c].code = code

FreeId == CHOOSE c \in ClientIds \ Existing : \A d \in ClientIds \ Existing : c <= d

\* One attempted mail.  "reminder", "pause", "reactivated" and "lead" go to
\* the address of client `about`; "operator", "leadOperator" and
\* "intakeOperator" to YOUR_NOTIFY_EMAIL; "autoreply" to the lead's address.
Mail(kind, about) == [kind |-> kind, about |-> about]

\* A mail a pass attempted, with what sendEmail returned.
Attempt(kind, about, res) == [kind |-> kind, about |-> about, res |-> res]

\* --------------------------------------------------------- admin handlers
\* POST /admin/clients/add.  A code already in use makes create throw: the
\* request fails and no row is written.
AddClient(code, link) ==
  /\ Existing # ClientIds
  /\ IF CodeTaken(code)
     THEN /\ UNCHANGED clients
          /\ lastOp' = [op |-> "add", id |-> 0, code |-> code]
     ELSE /\ clients' = [clients EXCEPT ![FreeId] = NewRow(code, link, now)]
          /\ lastOp' = [op |-> "add", id |-> FreeId, code |-> code]
  /\ UNCHANGED <<now, cfg, intakes, leads, passVars>>

\* A pause that also forgets the last reminder.
PauseDataClearReminder(c, t) ==
  [status |-> "PAUSED", pausedAt |-> At(t), pauseReason |-> At("manual"),
   lastReminderAt |-> Null]

\* The patch POST /admin/clients/:id/pause writes (lines 278-281).
PauseData(c, t) ==
  [status |-> "PAUSED", pausedAt |-> At(t), pauseReason |-> At("manual")]

\* POST /admin/clients/:id/pause
PauseClient(id) ==
  /\ IF clients[id] = NoClient
     THEN /\ UNCHANGED clients
          /\ lastOp' = [op |-> "pause", id |-> id, was |-> "NONE", due |-> Null,
                        mails |-> <<>>]
     ELSE /\ clients' = Update(id, PauseData(clients[id], now))
          /\ lastOp' = [op |-> "pause", id |-> id, was |-> clients[id].status,
                        due |-> clients[id].dueAt, mails |-> <<Mail("pause", id)>>]
  /\ UNCHANGED <<now, cfg, intakes, leads, passVars>>

\* Renewal that leaves the pause reason behind.
PaidDataKeepReason(c, t) ==
  [status |-> "ACTIVE", startedAt |-> At(t), dueAt |-> At(addDays(t, PLAN_DAYS)),
   pausedAt |-> Null]

\* Renewal that reactivates without a new period.
PaidDataKeepDue(c, t) ==
  [status |-> "ACTIVE", pausedAt |-> Null, pauseReason |-> Null]

\* Renewal that extends the old due date instead of restarting the period.
PaidDataExtend(c, t) ==
  [status |-> "ACTIVE", startedAt |-> At(t),
   dueAt |-> At(addDays(Val(c.dueAt), PLAN_DAYS)),
   pausedAt |-> Null, pauseReason |-> Null]

\* The patch POST /admin/clients/:id/paid writes (lines 303-309) for the row
\* c it read.
PaidData(c, t) ==
  [status |-> "ACTIVE", startedAt |-> At(t), dueAt |-> At(addDays(t, PLAN_DAYS)),
   pausedAt |-> Null, pauseReason |-> Null]

\* POST /admin/clients/:id/paid
MarkPaid(id) ==
  /\ IF clients[id] = NoClient
     THEN /\ UNCHANGED clients
          /\ lastOp' = [op |-> "paid", id |-> id, was |-> "NONE", due |-> Null,
                        mails |-> <<>>]
     ELSE /\ clients' = Update(id, PaidData(clients[id], now))
          /\ lastOp' = [op |-> "paid", id |-> id, was |-> clients[id].status,
                        due |-> clients[id].dueAt,
                        mails |-> <<Mail("reactivated", id)>>]
  /\ UNCHANGED <<now, cfg, intakes, leads, passVars>>

\* POST /admin/intake/:id/approve with the code the admin typed ("" when
\* left empty).  create throws on a code in use, before the intake is marked.
ApproveIntake(id, code) ==
  /\ Existing # ClientIds
  /\ IF intakes[id] = "NONE" \/ code = "" \/ CodeTaken(code)
     THEN /\ UNCHANGED <<clients, intakes>>
          /\ lastOp' = [op |-> "approve", intake |-> id, id |-> 0, code |-> code]
     ELSE /\ clients' = [clients EXCEPT ![FreeId] = NewRow(code, Null, now)]
          /\ intakes' = [intakes EXCEPT ![id] = "APPROVED"]
          /\ lastOp' = [op |-> "approve", intake |-> id, id |-> FreeId, code |-> code]
  /\ UNCHANGED <<now, cfg, leads, passVars>>

\* -------------------------------------------------------- public handlers
\* POST /intake
SubmitIntake ==
  /\ \E i \in IntakeIds : intakes[i] = "NONE"
  /\ LET i == CHOOSE j \in IntakeIds : intakes[j] = "NONE" IN
       /\ intakes' = [intakes EXCEPT ![i] = "NEW"]
       /\ lastOp' = [op |-> "intake", intake |-> i,
                     mails |-> IF YOUR_NOTIFY_EMAIL
                               THEN <<Mail("intakeOperator", 0)>> ELSE <<>>]
  /\ UNCHANGED <<now, cfg, clients, leads, passVars>>

\* Lead notifications that leave out the status test.
LeadMailsAnyStatus(id, row) ==
  <<Mail("lead", id)>>
  \o (IF YOUR_NOTIFY_EMAIL THEN <<Mail("leadOperator", id)>> ELSE <<>>)
  \o (IF row.bookingLink # Null THEN <<Mail("autoreply", id)>> ELSE <<>>)

\* Lead notifications that auto-reply whether or not there is a booking link.
LeadMailsAlwaysReply(id, row) ==
  IF row.status = "ACTIVE"
  THEN <<Mail("lead", id)>>
       \o (IF YOUR_NOTIFY_EMAIL THEN <<Mail("leadOperator", id)>> ELSE <<>>)
       \o <<Mail("autoreply", id)>>
  ELSE <<>>

\* The mails POST /c/:code/lead attempts for the client row it read
\* (lines 415-454).
LeadMails(id, row) ==
  IF row.status = "ACTIVE"
  THEN <<Mail("lead", id)>>
       \o (IF YOUR_NOTIFY_EMAIL THEN <<Mail("leadOperator", id)>> ELSE <<>>)
       \o (IF row.bookingLink # Null THEN <<Mail("autoreply", id)>> ELSE <<>>)
  ELSE <<>>

\* A lead handler that stores the lead without finding its client first.
SubmitLeadNoLookup(code) ==
  /\ Len(leads) < MaxLeads
  /\ IF ~CodeTaken(code)
     THEN /\ leads' = Append(leads, 0)
          /\ lastOp' = [op |-> "lead", id |-> 0, code |-> code, mails |-> <<>>]
     ELSE LET id == CHOOSE c \in Existing : clients[c].code = code IN
          /\ leads' = Append(leads, id)
          /\ lastOp' = [op |-> "lead", id |-> id, code |-> code,
                        mails |-> LeadMails(id, clients[id])]
  /\ UNCHANGED <<now, cfg, clients, intakes, passVars>>

\* POST /c/:code/lead
SubmitLead(code) ==
  /\ Len(leads) < MaxLeads
  /\ IF ~CodeTaken(code)
     THEN /\ UNCHANGED leads
          /\ lastOp' = [op |-> "lead", id |-> 0, code |-> code, mails |-> <<>>]
     ELSE LET id == CHOOSE c \in Existing : clients[c].code = code IN
          /\ leads' = Append(leads, id)
          /\ lastOp' = [op |-> "lead", id |-> id, code |-> code,
                        mails |-> LeadMails(id, clients[id])]
  /\ UNCHANGED <<now, cfg, clients, intakes, passVars>>

\* ------------------------------------------------------ subscriptionCheck
\* The loop is done with row c and goes on to the next one.
NextRow(p, c) ==
  /\ todo' = [todo EXCEPT ![p] = @ \ {c}]
  /\ cur' = [cur EXCEPT ![p] = 0]
  /\ left' = [left EXCEPT ![p] = 0]
  /\ pc' = [pc EXCEPT ![p] = "loop"]

\* The reminder condition without its status test.
RemindDueAnyStatus(row, l) ==
  l <= REMIND_DAYS_BEFORE /\ l > 0

\* The reminder window with its upper end left out.
RemindDueShort(row, l) ==
  row.status = "ACTIVE" /\ l < REMIND_DAYS_BEFORE /\ l > 0

\* The reminder condition of line 138 on the row as read.
RemindDue(row, l) ==
  row.status = "ACTIVE" /\ l <= REMIND_DAYS_BEFORE /\ l > 0

\* The throttle by calendar day instead of by elapsed time.
AlreadyToday(row, t) ==
  row.lastReminderAt # Null /\ t \div DayTicks = Val(row.lastReminderAt) \div DayTicks

\* The throttle that still holds when exactly 24 hours have passed.
AlreadyInclusive(row, t) ==
  row.lastReminderAt # Null /\ t - Val(row.lastReminderAt) <= DayTicks

\* The throttle that only holds for the instant of the last reminder.
AlreadySameInstant(row, t) ==
  row.lastReminderAt # Null /\ t - Val(row.lastReminderAt) < 1

\* The throttle of lines 139-141 at time t.
Already(row, t) ==
  row.lastReminderAt # Null /\ t - Val(row.lastReminderAt) < DayTicks

\* Expiry that already fires on the last day before the due date.
ExpiredDueLastDay(row, l) ==
  row.status = "ACTIVE" /\ l <= 1

\* Expiry that is only noticed within a day of the due date.
ExpiredDueToday(row, l) ==
  row.status = "ACTIVE" /\ l = 0

\* Expiry that misses the due instant itself.
ExpiredDueStrict(row, l) ==
  row.status = "ACTIVE" /\ l < 0

\* The expiry condition of line 163 on the row as read.
ExpiredDue(row, l) ==
  row.status = "ACTIVE" /\ l <= 0

\* The patch of lines 164-167.
ExpiredData(t) ==
  [status |-> "PAUSED", pausedAt |-> At(t), pauseReason |-> At("expired")]

\* Lines 162-167: pause the row if expired, else go on to the next row.
Expire(p, c, l) ==
  IF ExpiredDue(snap[p][c], l)
  THEN /\ clients' = Update(c, ExpiredData(now))
       /\ pc' = [pc EXCEPT ![p] = "pauseMail"]
       /\ cur' = [cur EXCEPT ![p] = c]
       /\ left' = [left EXCEPT ![p] = l]
       /\ UNCHANGED todo
  ELSE /\ UNCHANGED clients
       /\ NextRow(p, c)

\* Where the pass goes after a sendEmail that returned r: an exception leaves
\* the loop and rejects the pass.
Threw(r) == r = "threw"

\* Lines 128-130: findMany returns every row (all have status ACTIVE or PAUSED).
PassStart(p) ==
  /\ pc[p] = "idle"
  /\ snap' = [snap EXCEPT ![p] = clients]
  /\ todo' = [todo EXCEPT ![p] = Existing]
  /\ pc' = [pc EXCEPT ![p] = "loop"]
  /\ lastOp' = [op |-> "start", by |-> p]
  /\ UNCHANGED <<now, cfg, clients, intakes, leads, cur, left, sent, rejected>>

\* Lines 132-147 and 162-167: the loop takes the next row (rows come in key
\* order) and runs up to its first await.
PassLoop(p) ==
  /\ pc[p] = "loop"
  /\ lastOp' = [op |-> "loop", by |-> p]
  /\ IF todo[p] = {}
     THEN /\ pc' = [pc EXCEPT ![p] = "done"]
          /\ UNCHANGED <<clients, todo, cur, left>>
     ELSE LET c == CHOOSE d \in todo[p] : \A e \in todo[p] : d <= e
              row == snap[p][c] IN
          IF row.dueAt = Null
          THEN /\ UNCHANGED clients
               /\ NextRow(p, c)
          ELSE LET l == getDaysLeft(row.dueAt, now) IN
               IF RemindDue(row, l) /\ ~Already(row, now)
               THEN /\ clients' = Update(c, [lastReminderAt |-> At(now)])
                    /\ pc' = [pc EXCEPT ![p] = "remindMail"]
                    /\ cur' = [cur EXCEPT ![p] = c]
                    /\ left' = [left EXCEPT ![p] = l]
                    /\ UNCHANGED todo
               ELSE Expire(p, c, l)
  /\ UNCHANGED <<now, cfg, intakes, leads, snap, sent, rejected>>

\* Lines 149-158, then 162-167 for the same row.
PassRemindMail(p, transportOk) ==
  /\ pc[p] = "remindMail"
  /\ LET r == sendEmail(transportOk) IN
       /\ lastOp' = [op |-> "mail", by |-> p, id |-> cur[p], kind |-> "reminder",
                     res |-> r]
       /\ sent' = [sent EXCEPT ![p] = Append(@, Attempt("reminder", cur[p], r))]
       /\ IF Threw(r)
          THEN /\ pc' = [pc EXCEPT ![p] = "failed"]
               /\ UNCHANGED <<clients, todo, cur, left>>
          ELSE Expire(p, cur[p], left[p])
  /\ UNCHANGED <<now, cfg, intakes, leads, snap, rejected>>

\* Lines 169-180.
PassPauseMail(p, transportOk) ==
  /\ pc[p] = "pauseMail"
  /\ LET r == sendEmail(transportOk) IN
       /\ lastOp' = [op |-> "mail", by |-> p, id |-> cur[p], kind |-> "pause",
                     res |-> r]
       /\ sent' = [sent EXCEPT ![p] = Append(@, Attempt("pause", cur[p], r))]
       /\ IF Threw(r)
          THEN /\ pc' = [pc EXCEPT ![p] = "failed"]
               /\ UNCHANGED <<todo, cur, left>>
          ELSE IF YOUR_NOTIFY_EMAIL
          THEN /\ pc' = [pc EXCEPT ![p] = "opMail"]
               /\ UNCHANGED <<todo, cur, left>>
          ELSE NextRow(p, cur[p])
  /\ UNCHANGED <<now, cfg, clients, intakes, leads, snap, rejected>>

\* Lines 181-185.
PassOpMail(p, transportOk) ==
  /\ pc[p] = "opMail"
  /\ LET r == sendEmail(transportOk) IN
       /\ lastOp' = [op |-> "mail", by |-> p, id |-> cur[p], kind |-> "operator",
                     res |-> r]
       /\ sent' = [sent EXCEPT ![p] = Append(@, Attempt("operator", cur[p], r))]
       /\ IF Threw(r)
          THEN /\ pc' = [pc EXCEPT ![p] = "failed"]
               /\ UNCHANGED <<todo, cur, left>>
          ELSE NextRow(p, cur[p])
  /\ UNCHANGED <<now, cfg, clients, intakes, leads, snap, rejected>>

\* The store throws on the update the loop is about to make for its next row
\* (lines 144-147 or 164-167): nothing in subscriptionCheck catches it, the
\* loop is left and the invocation rejects.
PassUpdateFails(p) ==
  /\ pc[p] = "loop"
  /\ todo[p] # {}
  /\ rejected[p] < MaxRejected
  /\ LET c == CHOOSE d \in todo[p] : \A e \in todo[p] : d <= e
         row == snap[p][c] IN
       /\ row.dueAt # Null
       /\ LET l == getDaysLeft(row.dueAt, now) IN
            /\ (RemindDue(row, l) /\ ~Already(row, now)) \/ ExpiredDue(row, l)
            /\ left' = [left EXCEPT ![p] = l]
       /\ cur' = [cur EXCEPT ![p] = c]
       /\ lastOp' = [op |-> "storeError", by |-> p, id |-> c]
  /\ pc' = [pc EXCEPT ![p] = "failed"]
  /\ UNCHANGED <<now, cfg, clients, intakes, leads, snap, todo, sent, rejected>>

\* A call site without a catch: a rejected invocation takes its caller down.
AfterPassNoCatch(p, result) ==
  IF result = "failed" THEN "crashed" ELSE "idle"

\* Where a trigger stands once its invocation has settled with `result`:
\* the timer callback's .catch (line 193) and the dashboard's .catch (line
\* 224) both take a rejection, so the trigger is ready for its next run.
AfterPass(p, result) == "idle"

\* The call site takes the pass's result: the scheduler's catch (line 193),
\* or the dashboard's catch and render (lines 224-244), which only read.
PassReturn(p) ==
  /\ pc[p] \in {"done", "failed"}
  /\ pc' = [pc EXCEPT ![p] = AfterPass(p, pc[p])]
  /\ rejected' = [rejected EXCEPT ![p] = IF pc[p] = "failed" THEN @ + 1 ELSE @]
  /\ snap' = [snap EXCEPT ![p] = [c \in ClientIds |-> NoClient]]
  /\ todo' = [todo EXCEPT ![p] = {}]
  /\ cur' = [cur EXCEPT ![p] = 0]
  /\ left' = [left EXCEPT ![p] = 0]
  /\ sent' = [sent EXCEPT ![p] = <<>>]
  /\ lastOp' = [op |-> "return", by |-> p, threw |-> pc[p] = "failed",
                rendered |-> (p = "dash" /\ AfterPass(p, pc[p]) = "idle")]
  /\ UNCHANGED <<now, cfg, clients, intakes, leads>>

PassStep(p) ==
  \/ PassStart(p)
  \/ PassLoop(p)
  \/ \E ok \in BOOLEAN : PassRemindMail(p, ok)
  \/ \E ok \in BOOLEAN : PassPauseMail(p, ok)
  \/ \E ok \in BOOLEAN : PassOpMail(p, ok)
  \/ PassReturn(p)

\* --------------------------------------------------------- specifications
Quiet == \A p \in Passes : pc[p] = "idle"

\* The subscription lifecycle, one operation at a time: a request or a pass
\* starts when no pass is in flight.  Both triggers run the same function;
\* here the scheduler's timer runs it.
Next ==
  /\ \/ Quiet /\ Tick
     \/ Quiet /\ \E code \in Codes : AddClient(code, Null)
     \/ Quiet /\ \E id \in ClientIds : PauseClient(id)
     \/ Quiet /\ \E id \in ClientIds : MarkPaid(id)
     \/ PassStep("sched")
  /\ UNCHANGED reminders

Spec == Init /\ [][Next]_vars

\* Every handler of the application, one operation at a time, on a shorter
\* clock; the pass is the one a dashboard load runs.
AppNext ==
  /\ \/ Quiet /\ now < AppTime /\ Tick
     \/ Quiet /\ \E code \in Codes : AddClient(code, Null)
     \/ Quiet /\ \E id \in ClientIds : PauseClient(id)
     \/ Quiet /\ \E id \in ClientIds : MarkPaid(id)
     \/ Quiet /\ SubmitIntake
     \/ Quiet /\ \E i \in IntakeIds, code \in Codes \cup {""} : ApproveIntake(i, code)
     \/ Quiet /\ \E code \in Codes : SubmitLead(code)
     \/ PassStep("dash")
  /\ UNCHANGED reminders

AppSpec == Init /\ [][AppNext]_vars

\* Overlapping passes on one client row: a scheduler tick, a dashboard load
\* and a mark-paid request interleave at every await.
ConcNext ==
  /\ \/ Quiet /\ Tick
     \/ Existing = {} /\ \E code \in Codes : AddClient(code, Null)
     \/ \E id \in ClientIds : MarkPaid(id)
     \/ \E p \in Passes : PassStep(p)
  /\ UNCHANGED reminders

ConcSpec == Init /\ [][ConcNext]_vars

\* Lead capture: clients with and without a booking link are created, paused
\* by hand and renewed, and leads come in on their codes.  No pass runs and
\* the clock stands still.
LeadNext ==
  /\ \/ \E code \in Codes, link \in Links : AddClient(code, link)
     \/ \E id \in ClientIds : PauseClient(id)
     \/ \E id \in ClientIds : MarkPaid(id)
     \/ \E code \in Codes : SubmitLead(code)
  /\ UNCHANGED reminders

LeadSpec == Init /\ [][LeadNext]_vars

\* Passes against a store that may fail: the timer and the dashboard run
\* subscriptionCheck one invocation at a time, and an update inside the loop
\* may throw.
FaultNext ==
  /\ \/ Quiet /\ Tick
     \/ Quiet /\ \E code \in Codes : AddClient(code, Null)
     \/ \E p \in Passes : (Quiet \/ pc[p] # "idle") /\ PassStep(p)
     \/ \E p \in Passes : PassUpdateFails(p)
  /\ UNCHANGED reminders

FaultSpec == Init /\ [][FaultNext]_vars

\* Deployments with a reminder window of two days.
PeriodConfigs ==
  { [planDays |-> 2, remindDays |-> 2, notify |-> TRUE, smtp |-> TRUE],
    [planDays |-> 1, remindDays |-> 2, notify |-> FALSE, smtp |-> TRUE],
    [planDays |-> 3, remindDays |-> 2, notify |-> TRUE, smtp |-> FALSE] }

PeriodInit ==
  /\ now = 0
  /\ cfg \in PeriodConfigs
  /\ clients = [c \in ClientIds |-> NoClient]
  /\ intakes = [i \in IntakeIds |-> "NONE"]
  /\ leads = <<>>
  /\ pc = [p \in Passes |-> "idle"]
  /\ snap = [p \in Passes |-> [c \in ClientIds |-> NoClient]]
  /\ todo = [p \in Passes |-> {}]
  /\ cur = [p \in Passes |-> 0]
  /\ left = [p \in Passes |-> 0]
  /\ sent = [p \in Passes |-> <<>>]
  /\ rejected = [p \in Passes |-> 0]
  /\ reminders = [c \in ClientIds |-> 0]
  /\ lastOp = [op |-> "init"]

\* The step attempted a reminder mail to client c (lines 149-158).
ReminderTo(c) ==
  /\ lastOp'.op = "mail"
  /\ lastOp'.kind = "reminder"
  /\ lastOp'.id = c

\* One subscription period per client: clients are created and paused by
\* hand or on expiry, never renewed; passes run one at a time, and every
\* reminder mail is counted.
PeriodNext ==
  /\ \/ Quiet /\ Tick
     \/ Quiet /\ \E code \in Codes : AddClient(code, Null)
     \/ Quiet /\ \E id \in ClientIds : PauseClient(id)
     \/ PassStep("sched")
  /\ reminders' = [c \in ClientIds |->
                     IF ReminderTo(c) THEN reminders[c] + 1 ELSE reminders[c]]

PeriodSpec == PeriodInit /\ [][PeriodNext]_vars

\* One step of the pass the timer runs.
SchedStep == PassStep("sched") /\ UNCHANGED reminders

\* The scheduler at work: clients are created and renewed while the timer
\* keeps firing (setInterval, lines 192-194) and every invocation it starts
\* runs on to its end, so a step of the timer's pass that stays possible is
\* eventually taken.
LiveNext ==
  /\ \/ Quiet /\ Tick
     \/ Quiet /\ \E code \in Codes : AddClient(code, Null)
     \/ Quiet /\ \E id \in ClientIds : MarkPaid(id)
     \/ PassStep("sched")
  /\ UNCHANGED reminders

LiveSpec == Init /\ [][LiveNext]_vars /\ WF_vars(SchedStep)

\* ------------------------------------------------------------ properties
\* The mails of one kind about one client in a pass's log.
Count(log, kind, about) ==
  Cardinality({i \in DOMAIN log : log[i].kind = kind /\ log[i].about = about})

Finished(p) == pc[p] = "done"

\* The row of client c as pass p read it.
Read(p, c) == snap[p][c]

\* C1: a client read as ACTIVE with dueAt <= now is, after that one pass,
\* PAUSED with pauseReason "expired" and pausedAt set; the pass attempted
\* exactly one pause notification to it, and one operator notification if and
\* only if an operator address is configured.
C1_ExpiredIsPaused ==
  \A p \in Passes : Finished(p) =>
    \A c \in ClientIds :
      (/\ Read(p, c).status = "ACTIVE"
       /\ Read(p, c).dueAt # Null
       /\ Val(Read(p, c).dueAt) <= now)
      => /\ clients[c].status = "PAUSED"
         /\ clients[c].pauseReason = At("expired")
         /\ clients[c].pausedAt # Null
         /\ Count(sent[p], "pause", c) = 1
         /\ Count(sent[p], "operator", c) = (IF cfg.notify THEN 1 ELSE 0)

C1_Witness ==
  \E p \in Passes, c \in ClientIds :
    /\ Finished(p)
    /\ cfg.notify
    /\ Read(p, c).status = "ACTIVE"
    /\ Val(Read(p, c).dueAt) <= now
    /\ clients[c].status = "PAUSED"

\* dueAt - now of a row, in ticks.
Remaining(row) == Val(row.dueAt) - now

\* No reminder in the 24 hours before now.
NotRemindedLately(row) ==
  row.lastReminderAt = Null \/ now - Val(row.lastReminderAt) >= DayTicks

\* C2: an ACTIVE client with 0 < daysLeft <= reminderWindowDays and no
\* reminder in the last 24 hours has, after one pass, lastReminderAt = the
\* pass time and exactly one reminder attempted; an ACTIVE client with
\* daysLeft > reminderWindowDays gets no reminder and keeps lastReminderAt.
C2_ReminderInWindow ==
  \A p \in Passes : Finished(p) =>
    \A c \in ClientIds :
      (Read(p, c).status = "ACTIVE" /\ Read(p, c).dueAt # Null) =>
        /\ (/\ 0 < Remaining(Read(p, c))
            /\ Remaining(Read(p, c)) <= cfg.remindDays * DayTicks
            /\ NotRemindedLately(Read(p, c)))
           => /\ clients[c].lastReminderAt = At(now)
              /\ Count(sent[p], "reminder", c) = 1
        /\ Remaining(Read(p, c)) > cfg.remindDays * DayTicks
           => /\ clients[c].lastReminderAt = Read(p, c).lastReminderAt
              /\ Count(sent[p], "reminder", c) = 0

C2_Witness ==
  \E p \in Passes, c \in ClientIds :
    /\ Finished(p)
    /\ Read(p, c).status = "ACTIVE"
    /\ 0 < Remaining(Read(p, c))
    /\ Remaining(Read(p, c)) <= cfg.remindDays * DayTicks
    /\ Read(p, c).lastReminderAt # Null
    /\ NotRemindedLately(Read(p, c))
    /\ Count(sent[p], "reminder", c) = 1

\* C3: a pass that runs less than 24 hours after a client's last reminder
\* sends that client no reminder and leaves its lastReminderAt as it was.
C3_NoSecondReminder ==
  \A p \in Passes : Finished(p) =>
    \A c \in ClientIds :
      (/\ Read(p, c).status # "NONE"
       /\ Read(p, c).lastReminderAt # Null
       /\ now - Val(Read(p, c).lastReminderAt) < DayTicks)
      => /\ Count(sent[p], "reminder", c) = 0
         /\ clients[c].lastReminderAt = Read(p, c).lastReminderAt

\* The already-reminded client is still ACTIVE and inside the window, on the
\* calendar day after its reminder.
C3_Witness ==
  \E p \in Passes, c \in ClientIds :
    /\ Finished(p)
    /\ Read(p, c).status = "ACTIVE"
    /\ 0 < Remaining(Read(p, c))
    /\ Remaining(Read(p, c)) <= cfg.remindDays * DayTicks
    /\ Read(p, c).lastReminderAt # Null
    /\ now - Val(Read(p, c).lastReminderAt) < DayTicks
    /\ now \div DayTicks # Val(Read(p, c).lastReminderAt) \div DayTicks

\* The state change a pass made for the row a mail is about is in the store.
Committed(m) ==
  IF m.kind = "reminder"
  THEN clients[m.about].lastReminderAt = At(now)
  ELSE /\ clients[m.about].status = "PAUSED"
       /\ clients[m.about].pauseReason = At("expired")
       /\ clients[m.about].pausedAt = At(now)

\* What a pass owes the row it read: a pause if expired, a reminder stamp if
\* a reminder is due.
Served(row, c) ==
  (row.status = "ACTIVE" /\ row.dueAt # Null) =>
    /\ Remaining(row) <= 0 => clients[c].status = "PAUSED"
    /\ (/\ 0 < Remaining(row)
        /\ Remaining(row) <= cfg.remindDays * DayTicks
        /\ NotRemindedLately(row))
       => clients[c].lastReminderAt = At(now)

\* C4: a mail that fails or is skipped does not end the pass, which goes on
\* to serve every row it read, and the update made before the mail stays.
C4_MailFailureIsolated ==
  \A p \in Passes :
    /\ pc[p] # "failed"
    /\ \A i \in DOMAIN sent[p] : sent[p][i].res # "ok" => Committed(sent[p][i])
    /\ Finished(p) =>
         \A c \in ClientIds : c \notin todo[p] /\ Served(Read(p, c), c)

\* A mail about one row failed and the pass later mailed about another row.
C4_Witness ==
  \E p \in Passes :
    /\ Finished(p)
    /\ \E i, j \in DOMAIN sent[p] :
         /\ i < j
         /\ sent[p][i].res = "failed"
         /\ sent[p][j].about # sent[p][i].about

\* C5: mark-paid on an existing client, whatever its status and dueAt were,
\* leaves it ACTIVE with startedAt = now and dueAt = now + planDays.
C5_PaidResetsDue ==
  (lastOp.op = "paid" /\ lastOp.was # "NONE") =>
    /\ clients[lastOp.id].status = "ACTIVE"
    /\ clients[lastOp.id].startedAt = At(now)
    /\ clients[lastOp.id].dueAt = At(now + cfg.planDays * DayTicks)

\* Paid from PAUSED with a due date already a day in the past.
C5_Witness ==
  /\ lastOp.op = "paid"
  /\ lastOp.was = "PAUSED"
  /\ Val(lastOp.due) + DayTicks <= now
  /\ clients[lastOp.id].status = "ACTIVE"

\* C6: after mark-paid on a client, pausedAt, pauseReason and lastReminderAt
\* are all null.
C6_PaidClearsAll ==
  (lastOp.op = "paid" /\ lastOp.was # "NONE") =>
    /\ clients[lastOp.id].pausedAt = Null
    /\ clients[lastOp.id].pauseReason = Null
    /\ clients[lastOp.id].lastReminderAt = Null

\* C7: every ACTIVE client has a dueAt, after any sequence of create,
\* approve, pause, mark-paid and reconciliation passes.
C7_ActiveHasDue ==
  \A c \in ClientIds : clients[c].status = "ACTIVE" => clients[c].dueAt # Null

\* An approved intake's client, ACTIVE with its due date.
C7_Witness ==
  /\ lastOp.op = "approve"
  /\ lastOp.id # 0
  /\ clients[lastOp.id].status = "ACTIVE"
  /\ clients[lastOp.id].dueAt = At(now + cfg.planDays * DayTicks)

C8_Step ==
  \A c \in ClientIds : clients[c] # NoClient =>
    /\ (clients[c].status = "ACTIVE" /\ clients'[c].status = "PAUSED") =>
         \/ lastOp'.op = "pause" /\ lastOp'.id = c
         \/ /\ lastOp'.op \in {"loop", "mail"}
            /\ Val(clients[c].dueAt) <= now
            /\ clients'[c].pauseReason = At("expired")
    /\ (clients[c].status = "PAUSED" /\ clients'[c].status = "ACTIVE") =>
         /\ lastOp'.op = "paid" /\ lastOp'.id = c
         /\ clients'[c].dueAt = At(now + cfg.planDays * DayTicks)
    /\ lastOp'.op \in {"lead", "intake", "approve", "add", "start", "return", "tick"} =>
         /\ clients'[c].status = clients[c].status
         /\ clients'[c].dueAt = clients[c].dueAt

\* C8: a step from ACTIVE to PAUSED is a pass acting on expiry or an admin
\* pause; a step from PAUSED to ACTIVE is a mark-paid that sets dueAt to
\* now + planDays; lead and intake submission, intake approval and the
\* dashboard change no existing client's status or dueAt.
C8_LifecycleSteps == [][C8_Step]_vars

\* A pass has just paused an expired client.
C8_Witness ==
  \E p \in Passes :
    /\ pc[p] = "pauseMail"
    /\ lastOp.op = "loop"
    /\ Read(p, cur[p]).status = "ACTIVE"
    /\ clients[cur[p]].status = "PAUSED"
    /\ intakes[1] = "APPROVED"

\* C9: a pass leaves a client it read as PAUSED unchanged and attempts no
\* mail about it, wherever its dueAt lies.
C9_PausedUntouched ==
  \A p \in Passes : Finished(p) =>
    \A c \in ClientIds :
      Read(p, c).status = "PAUSED" =>
        /\ clients[c] = Read(p, c)
        /\ \A i \in DOMAIN sent[p] : sent[p][i].about # c

\* One PAUSED client past its due date, another inside the reminder window.
C9_Witness ==
  \E p \in Passes, c, d \in ClientIds :
    /\ Finished(p)
    /\ Read(p, c).status = "PAUSED"
    /\ Read(p, d).status = "PAUSED"
    /\ Remaining(Read(p, c)) <= 0
    /\ 0 < Remaining(Read(p, d))
    /\ Remaining(Read(p, d)) <= cfg.remindDays * DayTicks

\* The mails of one kind about one client in the logs of all passes in flight.
CountAll(kind, about) ==
  Cardinality({x \in Passes \X (1..3 * Cardinality(ClientIds)) :
                 /\ x[2] \in DOMAIN sent[x[1]]
                 /\ sent[x[1]][x[2]].kind = kind
                 /\ sent[x[1]][x[2]].about = about})

\* C10: when two passes overlap, an expired client is sent the expiry pause
\* notification at most once in total, and a client in the reminder window
\* at most one reminder per pass.
C10_OverlapNoDuplicate ==
  \A c \in ClientIds :
    /\ CountAll("pause", c) <= 1
    /\ \A p \in Passes : Count(sent[p], "reminder", c) <= 1

\* The mails of one kind in a handler's list of attempted mails.
CountKind(mails, kind) ==
  Cardinality({i \in DOMAIN mails : mails[i].kind = kind})

\* The last step was a lead submitted on the code of an existing client.
LeadStored ==
  /\ lastOp.op = "lead"
  /\ lastOp.id # 0

\* C11: a lead submitted on the code of a PAUSED client is stored as a Lead
\* of that client and no notification at all is attempted.
C11_PausedLeadSilent ==
  (LeadStored /\ clients[lastOp.id].status = "PAUSED") =>
    /\ Len(leads) > 0
    /\ leads[Len(leads)] = lastOp.id
    /\ clients[lastOp.id].code = lastOp.code
    /\ lastOp.mails = <<>>

\* The paused client has a booking link and an operator address is set.
C11_Witness ==
  /\ LeadStored
  /\ clients[lastOp.id].status = "PAUSED"
  /\ clients[lastOp.id].bookingLink # Null
  /\ cfg.notify
  /\ leads[Len(leads)] = lastOp.id

\* C12: a lead submitted on the code of an ACTIVE client is stored and
\* exactly these mails are attempted: one to the client; one to the operator
\* if and only if an operator address is configured; one auto-reply to the
\* lead if and only if the client has a booking link.
C12_ActiveLeadMails ==
  (LeadStored /\ clients[lastOp.id].status = "ACTIVE") =>
    /\ Len(leads) > 0
    /\ leads[Len(leads)] = lastOp.id
    /\ CountKind(lastOp.mails, "lead") = 1
    /\ CountKind(lastOp.mails, "leadOperator") = (IF cfg.notify THEN 1 ELSE 0)
    /\ CountKind(lastOp.mails, "autoreply") =
         (IF clients[lastOp.id].bookingLink # Null THEN 1 ELSE 0)
    /\ Len(lastOp.mails) = 1 + (IF cfg.notify THEN 1 ELSE 0)
                            + (IF clients[lastOp.id].bookingLink # Null THEN 1 ELSE 0)
    /\ \A i \in DOMAIN lastOp.mails : lastOp.mails[i].about = lastOp.id

\* An ACTIVE client without a booking link while another client has one, and
\* no operator address: the client's notification is the only mail.
C12_Witness ==
  /\ LeadStored
  /\ clients[lastOp.id].status = "ACTIVE"
  /\ clients[lastOp.id].bookingLink = Null
  /\ \E d \in ClientIds : clients[d] # NoClient /\ clients[d].bookingLink # Null
  /\ ~cfg.notify
  /\ lastOp.mails = <<Mail("lead", lastOp.id)>>

\* C13: approving an intake under a code that an existing client already
\* uses does not fail: a client is created under a distinct code (the base
\* with a numeric suffix) and the intake is marked.
C13_CollisionDisambiguated ==
  (/\ lastOp.op = "approve"
   /\ lastOp.code # ""
   /\ intakes[lastOp.intake] # "NONE")
  => /\ lastOp.id # 0
     /\ clients[lastOp.id] # NoClient
     /\ \A d \in Existing \ {lastOp.id} : clients[d].code # clients[lastOp.id].code
     /\ intakes[lastOp.intake] = "APPROVED"

C14_Step ==
  \A i \in IntakeIds :
    /\ intakes[i] = "APPROVED" => intakes'[i] = "APPROVED"
    /\ (lastOp'.op = "approve" /\ lastOp'.intake = i /\ intakes[i] = "APPROVED")
       => clients' = clients

\* C14: an intake goes from NEW to APPROVED once and stays there, and an
\* approve action on an intake that is already APPROVED creates no client.
C14_ApprovedOnce == [][C14_Step]_vars

C15_Step ==
  \A c \in ClientIds :
    (lastOp'.op = "pause" /\ lastOp'.id = c /\ clients[c].status = "PAUSED")
    => /\ clients'[c] = clients[c]
       /\ lastOp'.mails = <<>>

\* C15: a manual pause of a client that is already PAUSED changes nothing:
\* status, pausedAt and pauseReason stay (an "expired" pause is not rewritten
\* to "manual", pausedAt is not re-stamped) and no pause mail is sent.
C15_PauseIdempotent == [][C15_Step]_vars

C16_Step ==
  \A c \in ClientIds :
    (lastOp'.op = "pause" /\ lastOp'.id = c /\ clients[c].status = "ACTIVE")
    => /\ clients'[c].status = "PAUSED"
       /\ clients'[c].pausedAt = At(now)
       /\ clients'[c].pauseReason = At("manual")
       /\ lastOp'.mails = <<Mail("pause", c)>>
       /\ clients'[c].dueAt = clients[c].dueAt
       /\ clients'[c].startedAt = clients[c].startedAt
       /\ clients'[c].lastReminderAt = clients[c].lastReminderAt
       /\ \A d \in ClientIds \ {c} : clients'[d] = clients[d]

\* C16: a manual pause of an ACTIVE client sets status PAUSED, pausedAt = now
\* and pauseReason "manual", attempts exactly one pause mail to the client,
\* and leaves dueAt, startedAt and lastReminderAt as they were.
C16_ManualPause == [][C16_Step]_vars

\* A client paused by hand some time after it was created and reminded.
C16_Witness ==
  /\ lastOp.op = "pause"
  /\ lastOp.was = "ACTIVE"
  /\ clients[lastOp.id].status = "PAUSED"
  /\ clients[lastOp.id].pausedAt = At(now)
  /\ clients[lastOp.id].lastReminderAt # Null
  /\ clients[lastOp.id].startedAt # At(now)

\* l is the ceiling of d ticks divided by one day.
IsCeilingOfDays(l, d) == (l - 1) * DayTicks < d /\ d <= l * DayTicks

\* C17: daysLeft is the ceiling of (dueAt - now) / 1 day: at least 1 for any
\* dueAt after now (also a fraction of a day after), 0 for dueAt = now,
\* <= 0 for dueAt at or before now; so a pass pauses an ACTIVE client
\* exactly when dueAt <= now and reminds only when
\* 0 < dueAt - now <= reminderWindowDays days, with the ceiling in the text.
C17_DaysLeftCeiling ==
  /\ \A c \in ClientIds : (clients[c] # NoClient /\ clients[c].dueAt # Null) =>
        LET d == Remaining(clients[c])
            l == getDaysLeft(clients[c].dueAt, now) IN
          /\ IsCeilingOfDays(l, d)
          /\ d > 0 => l >= 1
          /\ d = 0 => l = 0
          /\ d <= 0 => l <= 0
  /\ \A p \in Passes : pc[p] = "remindMail" =>
        /\ IsCeilingOfDays(left[p], Remaining(Read(p, cur[p])))
        /\ 0 < Remaining(Read(p, cur[p]))
        /\ Remaining(Read(p, cur[p])) <= cfg.remindDays * DayTicks
  /\ \A p \in Passes : Finished(p) =>
        \A c \in ClientIds :
          (Read(p, c).status = "ACTIVE" /\ Read(p, c).dueAt # Null) =>
            /\ Count(sent[p], "pause", c) = 1 <=> Remaining(Read(p, c)) <= 0
            /\ clients[c].status = "PAUSED" <=> Remaining(Read(p, c)) <= 0
            /\ Count(sent[p], "reminder", c) > 0 =>
                 /\ 0 < Remaining(Read(p, c))
                 /\ Remaining(Read(p, c)) <= cfg.remindDays * DayTicks

\* A reminder for a client whose due date is a fraction of a day away: the
\* text says 1 day left.
C17_Witness ==
  \E p \in Passes :
    /\ pc[p] = "remindMail"
    /\ left[p] = 1
    /\ 0 < Remaining(Read(p, cur[p]))
    /\ Remaining(Read(p, cur[p])) < DayTicks

\* The calendar day a time falls on.
DayOf(t) == t \div DayTicks

\* C18: the reminder throttle is the time elapsed since lastReminderAt, not
\* the calendar day: an ACTIVE client inside the window that was reminded
\* before gets a reminder if and only if at least 24 hours have passed since,
\* whether or not midnight lies in between.
C18_RollingThrottle ==
  \A p \in Passes : Finished(p) =>
    \A c \in ClientIds :
      (/\ Read(p, c).status = "ACTIVE"
       /\ Read(p, c).dueAt # Null
       /\ 0 < Remaining(Read(p, c))
       /\ Remaining(Read(p, c)) <= cfg.remindDays * DayTicks
       /\ Read(p, c).lastReminderAt # Null)
      => LET elapsed == now - Val(Read(p, c).lastReminderAt) IN
           /\ elapsed >= DayTicks
              => /\ Count(sent[p], "reminder", c) = 1
                 /\ clients[c].lastReminderAt = At(now)
           /\ elapsed < DayTicks
              => /\ Count(sent[p], "reminder", c) = 0
                 /\ clients[c].lastReminderAt = Read(p, c).lastReminderAt

\* One pass, two clients inside the window: one reminded less than 24 hours
\* ago on the previous calendar day (suppressed), one reminded exactly 24
\* hours ago (reminded again).
C18_Witness ==
  \E p \in Passes, c, d \in ClientIds :
    /\ Finished(p)
    /\ Read(p, c).status = "ACTIVE" /\ Read(p, d).status = "ACTIVE"
    /\ Read(p, c).lastReminderAt # Null /\ Read(p, d).lastReminderAt # Null
    /\ now - Val(Read(p, c).lastReminderAt) < DayTicks
    /\ DayOf(now) # DayOf(Val(Read(p, c).lastReminderAt))
    /\ 0 < Remaining(Read(p, c))
    /\ Count(sent[p], "reminder", c) = 0
    /\ now - Val(Read(p, d).lastReminderAt) = DayTicks
    /\ Count(sent[p], "reminder", d) = 1

\* C19: a pass always gets through every row it read: when the handling of
\* one client fails (a mail, or the store update for that client), every
\* other client is still evaluated and, if due, reminded or paused.
C19_ClientsIsolated ==
  \A p \in Passes : pc[p] \in {"done", "failed"} =>
    \A c \in ClientIds \ {cur[p]} :
      /\ c \notin todo[p]
      /\ Served(Read(p, c), c)

\* C20: a pass that rejects is caught where it was called: the dashboard is
\* still rendered, and the trigger (timer or dashboard) is ready to run the
\* pass again.
C20_ErrorsSwallowed ==
  /\ \A p \in Passes : pc[p] \in {"idle", "loop", "remindMail", "pauseMail",
                                   "opMail", "done", "failed"}
  /\ (lastOp.op = "return" /\ lastOp.threw) =>
       /\ pc[lastOp.by] = "idle"
       /\ rejected[lastOp.by] > 0
       /\ lastOp.by = "dash" => lastOp.rendered
  /\ (lastOp.op = "return" /\ lastOp.by = "dash") => lastOp.rendered

\* After a rejected run of each trigger, the timer's pass has run again to
\* its end and paused or reminded a client.
C20_Witness ==
  /\ rejected["sched"] > 0
  /\ rejected["dash"] > 0
  /\ Finished("sched")
  /\ sent["sched"] # <<>>

\* Nothing is stored by the step.
StoreUnchanged == UNCHANGED <<clients, intakes, leads>>

C21_Step ==
  /\ (lastOp'.op \in {"pause", "paid"} /\ clients[lastOp'.id] = NoClient)
     => StoreUnchanged /\ lastOp'.mails = <<>>
  /\ (lastOp'.op = "approve" /\ intakes[lastOp'.intake] = "NONE")
     => StoreUnchanged
  /\ (lastOp'.op = "lead" /\ ~CodeTaken(lastOp'.code))
     => StoreUnchanged /\ lastOp'.mails = <<>>

\* C21: a manual pause or mark-paid on an unknown client id, an approval of
\* an unknown intake id and a lead on an unknown client code create and
\* change no client, intake or lead and attempt no notification.
C21_NotFoundNoChange == [][C21_Step]_vars

\* A lead on a code no client has, while another client exists.
C21_Witness ==
  /\ lastOp.op = "lead"
  /\ lastOp.id = 0
  /\ Existing # {}
  /\ leads = <<>>

\* C22: a client created by the admin or by an intake approval starts ACTIVE
\* with startedAt = now, dueAt = now + planDays, and pausedAt, pauseReason
\* and lastReminderAt null.
C22_CreatedFields ==
  (lastOp.op \in {"add", "approve"} /\ lastOp.id # 0) =>
    /\ clients[lastOp.id].status = "ACTIVE"
    /\ clients[lastOp.id].code = lastOp.code
    /\ clients[lastOp.id].startedAt = At(now)
    /\ clients[lastOp.id].dueAt = At(now + cfg.planDays * DayTicks)
    /\ clients[lastOp.id].pausedAt = Null
    /\ clients[lastOp.id].pauseReason = Null
    /\ clients[lastOp.id].lastReminderAt = Null

\* A client added by the admin after the clock has moved, next to one that
\* has been reminded.
C22_Witness ==
  /\ lastOp.op = "add"
  /\ lastOp.id # 0
  /\ now > 0
  /\ clients[lastOp.id].startedAt = At(now)
  /\ \E d \in Existing : clients[d].lastReminderAt # Null

\* C23: within one pass no client is both sent a reminder and paused: both
\* branches test the same daysLeft and the same status as read, so at most
\* one of them fires per client.
C23_ReminderOrPause ==
  \A p \in Passes : \A c \in ClientIds :
    /\ Count(sent[p], "reminder", c) + Count(sent[p], "pause", c) <= 1
    /\ Count(sent[p], "reminder", c) > 0 =>
         /\ 0 < Remaining(Read(p, c))
         /\ ~(pc[p] \in {"pauseMail", "opMail"} /\ cur[p] = c)

\* One pass that reminded one client and paused the other.
C23_Witness ==
  \E p \in Passes, c, d \in ClientIds :
    /\ Finished(p)
    /\ Count(sent[p], "reminder", c) = 1
    /\ Count(sent[p], "pause", d) = 1
    /\ clients[c].status = "ACTIVE"
    /\ clients[d].status = "PAUSED"

\* C24: a mark-paid that lands while a pass is running is not overwritten by
\* the pass: no client is PAUSED with pauseReason "expired" while its dueAt
\* is later than its pausedAt.
C24_RenewalNotOverwritten ==
  \A c \in ClientIds :
    (clients[c] # NoClient /\ clients[c].status = "PAUSED"
       /\ clients[c].pauseReason = At("expired"))
    => Val(clients[c].dueAt) <= Val(clients[c].pausedAt)

\* C26: for every client, status = PAUSED iff pausedAt is set iff
\* pauseReason is set, and a pauseReason is "expired" or "manual"; an ACTIVE
\* client carries neither.
C26_PauseFieldsAgree ==
  \A c \in ClientIds : clients[c] # NoClient =>
    /\ clients[c].status \in {"ACTIVE", "PAUSED"}
    /\ clients[c].status = "PAUSED" <=> clients[c].pausedAt # Null
    /\ clients[c].pausedAt # Null <=> clients[c].pauseReason # Null
    /\ clients[c].pauseReason \in {Null, At("expired"), At("manual")}

\* A client renewed after an expiry pause, next to one paused by hand.
C26_Witness ==
  /\ lastOp.op = "paid"
  /\ lastOp.was = "PAUSED"
  /\ clients[lastOp.id].pausedAt = Null
  /\ clients[lastOp.id].pauseReason = Null
  /\ \E d \in Existing : clients[d].pauseReason = At("manual")

\* The row's last reminder dates from before its current period began.
RemindedBeforePeriod(row) ==
  row.lastReminderAt # Null /\ Val(row.lastReminderAt) < Val(row.startedAt)

\* C28: a reminder of an earlier period never suppresses one in the renewed
\* period: a pass that finds a renewed client ACTIVE inside the window, not
\* yet reminded in this period, sends it a reminder.
C28_RenewedPeriodReminded ==
  \A p \in Passes : Finished(p) =>
    \A c \in ClientIds :
      (/\ Read(p, c).status = "ACTIVE"
       /\ Read(p, c).dueAt # Null
       /\ 0 < Remaining(Read(p, c))
       /\ Remaining(Read(p, c)) <= cfg.remindDays * DayTicks
       /\ RemindedBeforePeriod(Read(p, c)))
      => /\ Count(sent[p], "reminder", c) = 1
         /\ clients[c].lastReminderAt = At(now)

C25_Step ==
  \A c \in ClientIds :
    /\ reminders'[c] <= cfg.remindDays
    /\ ReminderTo(c) =>
         LET before == Read(lastOp'.by, c).lastReminderAt IN
           /\ before = Null <=> reminders[c] = 0
           /\ before # Null => now - Val(before) >= DayTicks

\* C25: over one subscription period, with passes that do not overlap and
\* no mark-paid, a client is sent at most reminderWindowDays reminders, and
\* two consecutive reminders to it are at least 24 hours apart.
C25_RemindersPerPeriod == [][C25_Step]_vars

\* A client that has been sent as many reminders as the window has days.
C25_Witness ==
  \E c \in ClientIds :
    /\ reminders[c] = cfg.remindDays
    /\ reminders[c] > 1
    /\ clients[c].status = "PAUSED"
    /\ clients[c].pauseReason = At("expired")

\* Client c is ACTIVE although its due date has come.
ExpiredActive(c) ==
  /\ clients[c] # NoClient
  /\ clients[c].status = "ACTIVE"
  /\ Val(clients[c].dueAt) <= now

\* Client c has been paused for expiry.
PausedForExpiry(c) ==
  /\ clients[c] # NoClient
  /\ clients[c].status = "PAUSED"
  /\ clients[c].pauseReason = At("expired")

\* Client c has been marked paid: it is ACTIVE with a due date ahead.
Renewed(c) ==
  /\ clients[c] # NoClient
  /\ clients[c].status = "ACTIVE"
  /\ Val(clients[c].dueAt) > now

====
